---- MODULE Spec2Model ----
(***************************************************************************)
(* The geometry pipeline of app_irap.py (Road KSI Map - Essex): one        *)
(* Streamlit script run per upload.  load_data, CRS detection, the Essex   *)
(* bounding-box / KSI != 0 filter, the sidebar road/speed filter, the KSI  *)
(* bucket filter, spline smoothing and the folium rendering.               *)
(*                                                                         *)
(* Coordinates are integers in tenths of the CRS unit (tenths of a degree  *)
(* for EPSG:4326, tenths of a metre for EPSG:32631), so that the corners   *)
(* of the bounding box (51.2, 52.3, -0.2, 1.5) are integers.               *)
(***************************************************************************)
EXTENDS Integers, Sequences, FiniteSets

VARIABLES
    uploaded_file,   \* st.file_uploader's value: NoFile or a parsed CSV
    pc,              \* position of the script: the stage that runs next
    gdf,             \* the module-level gdf (lines 79, 93, 102, 103)
    gdf_filtered,    \* the module-level gdf_filtered (lines 122, 154, 178)
    crs,             \* gdf.crs
    selected_roads,  \* line 111
    selected_speed,  \* line 118
    filter_1_4,      \* line 137
    filter_5_7,      \* line 138
    filter_8,        \* line 139
    messages,        \* st.error / st.warning texts shown in this run
    map,             \* the features handed to folium_static, or NoMap
    loaded,          \* history: the value load_data returned (line 79)
    geo,             \* history: gdf after the CRS stage (line 93)
    sg_geom,         \* smooth_geometry's argument geom
    sg_num_points,   \* smooth_geometry's argument num_points
    sg_result,       \* smooth_geometry's return value
    sg_pc            \* "call" before the call, "ret" after it

vars == <<uploaded_file, pc, gdf, gdf_filtered, crs, selected_roads,
          selected_speed, filter_1_4, filter_5_7, filter_8, messages, map,
          loaded, geo, sg_geom, sg_num_points, sg_result, sg_pc>>

pipeVars == <<uploaded_file, pc, gdf, gdf_filtered, crs, selected_roads,
              selected_speed, filter_1_4, filter_5_7, filter_8, messages,
              map, loaded, geo>>

sgVars == <<sg_geom, sg_num_points, sg_result, sg_pc>>

-----------------------------------------------------------------------------
(* Bounds of the model *)

\* most rows in an uploaded CSV
MaxRows == 2

\* smooth_geometry on its own is called with num_points in 1..MaxNumPoints
\* and with the script's 500
MaxNumPoints == 5

-----------------------------------------------------------------------------
(* Program constants, in tenths of a degree *)

bbox_south == 512
bbox_north == 523
bbox_west == -2
bbox_east == 15

\* line 89: -180, 180, -90, 90 degrees
LonLimit == 1800
LatLimit == 900

\* line 179: num_points=500
num_points == 500

\* scipy's splprep default spline degree k
SplineDegree == 3

-----------------------------------------------------------------------------
(* Sequence helpers *)

Min2(a, b) == IF a <= b THEN a ELSE b
Max2(a, b) == IF a >= b THEN a ELSE b

SetMin(S) == CHOOSE m \in S : \A x \in S : m <= x
SetMax(S) == CHOOSE m \in S : \A x \in S : m >= x

-----------------------------------------------------------------------------
(* CSV cells.  A geometry cell is WKT text, kept as its keyword and its    *)
(* coordinate list; a numeric cell is an integer, missing (NaN) or text.   *)

NaNCell == [kind |-> "nan", v |-> 0]
IntCell(n) == [kind |-> "int", v |-> n]
TextCell == [kind |-> "text", v |-> 0]

NaNRoad == [nan |-> TRUE, text |-> <<>>]
Road(chars) == [nan |-> FALSE, text |-> chars]

Wkt(tag, pts) == [tag |-> tag, pts |-> pts]

Unknown == <<"U", "n", "k", "n", "o", "w", "n">>

NoFile == [columns |-> {"<none>"}, rows |-> <<>>]

AllColumns == {"geometry", "Road Number", "speed_limit", "KSI Count"}

-----------------------------------------------------------------------------
(* Step 1: load_data *)

\* shapely.wkt.loads on one cell: the parsed geometry, or a raised exception.
\* A missing cell (NaN, a float) and unparsable text raise; GEOS refuses a
\* LINESTRING of exactly one coordinate; LINESTRING EMPTY parses to an empty
\* LineString.
wkt_loads(cell) ==
    CASE cell.tag = "LINESTRING" /\ Len(cell.pts) # 1 ->
           [raised |-> FALSE, geom_type |-> "LineString", coords |-> cell.pts]
      [] cell.tag = "POINT" /\ Len(cell.pts) = 1 ->
           [raised |-> FALSE, geom_type |-> "Point", coords |-> cell.pts]
      [] cell.tag = "POLYGON" /\ Len(cell.pts) >= 4
                              /\ cell.pts[1] = cell.pts[Len(cell.pts)] ->
           [raised |-> FALSE, geom_type |-> "Polygon", coords |-> cell.pts]
      [] OTHER ->
           [raised |-> TRUE, geom_type |-> "", coords |-> <<>>]

Geom(parsed) == [geom_type |-> parsed.geom_type, coords |-> parsed.coords]

RECURSIVE LStrip(_)
LStrip(chars) ==
    IF chars # <<>> /\ Head(chars) = " " THEN LStrip(Tail(chars)) ELSE chars

RECURSIVE RStrip(_)
RStrip(chars) ==
    IF chars # <<>> /\ chars[Len(chars)] = " "
    THEN RStrip(SubSeq(chars, 1, Len(chars) - 1))
    ELSE chars

\* str.strip()
Strip(chars) == RStrip(LStrip(chars))

\* line 70: fillna("Unknown").astype(str).str.strip()
NormRoad(cell) == IF cell.nan THEN Unknown ELSE Strip(cell.text)

\* lines 71, 72: fillna(0).astype(int); a text cell makes astype raise
CastRaises(cell) == cell.kind = "text"
NormInt(cell) == IF cell.kind = "int" THEN cell.v ELSE 0

\* mutant of LineStringRows: the geometry_type test of line 64 left out
LineStringRowsUnfiltered(rows) == [i \in 1..Len(rows) |-> i]

\* line 64: df[df['geometry_type'] == 'LineString'], as row numbers
LineStringRows(rows) ==
    SelectSeq([i \in 1..Len(rows) |-> i],
              LAMBDA i : wkt_loads(rows[i].geometry).geom_type = "LineString")

Empty(msg) == [gdf |-> <<>>, msgs |-> <<msg>>]

\* load_data(file): the returned GeoDataFrame and what st.error showed
load_data(file) ==
    IF file.columns = {} THEN Empty("Error loading data")
    ELSE IF "geometry" \notin file.columns
    THEN Empty("Error: The uploaded file must contain a 'geometry' column.")
    ELSE IF \E i \in 1..Len(file.rows) : wkt_loads(file.rows[i].geometry).raised
    THEN Empty("Error loading data")
    ELSE LET keep == LineStringRows(file.rows)
             df == [j \in 1..Len(keep) |-> file.rows[keep[j]]]
         IN  IF df = <<>>
             THEN Empty("No valid LineString geometries found in the dataset.")
             ELSE IF \/ ~(AllColumns \subseteq file.columns)
                     \/ \E j \in 1..Len(df) : \/ CastRaises(df[j].speed)
                                               \/ CastRaises(df[j].ksi)
             THEN Empty("Error loading data")
             ELSE [gdf |-> [j \in 1..Len(df) |->
                              [geometry |-> Geom(wkt_loads(df[j].geometry)),
                               road |-> NormRoad(df[j].road),
                               speed |-> NormInt(df[j].speed),
                               ksi |-> NormInt(df[j].ksi)]],
                   msgs |-> <<>>]

-----------------------------------------------------------------------------
(* Step 2: CRS detection, lines 85-95 *)

\* gdf.geometry.bounds: an empty geometry has NaN bounds, which min() and
\* max() skip
XCoords(T) ==
    UNION {{T[i].geometry.coords[k][1] : k \in DOMAIN T[i].geometry.coords} :
              i \in DOMAIN T}

YCoords(T) ==
    UNION {{T[i].geometry.coords[k][2] : k \in DOMAIN T[i].geometry.coords} :
              i \in DOMAIN T}

\* mutant of LooksGeographic: the limits themselves accepted (>=, <=)
LooksGeographicClosed(T) ==
    /\ XCoords(T) # {}
    /\ SetMin(XCoords(T)) >= -LonLimit
    /\ SetMax(XCoords(T)) <= LonLimit
    /\ SetMin(YCoords(T)) >= -LatLimit
    /\ SetMax(YCoords(T)) <= LatLimit

\* line 89; with no coordinate at all the four bounds are NaN and every
\* comparison is False
LooksGeographic(T) ==
    /\ XCoords(T) # {}
    /\ SetMin(XCoords(T)) > -LonLimit
    /\ SetMax(XCoords(T)) < LonLimit
    /\ SetMin(YCoords(T)) > -LatLimit
    /\ SetMax(YCoords(T)) < LatLimit

\* EPSG:32631 (UTM zone 31N) to EPSG:4326, in tenths: the central meridian is
\* 3 degrees east at a false easting of 500 km; one degree of latitude is
\* about 111.32 km and, at the latitude of Essex, one degree of longitude
\* about 69 km.  An integer approximation of pyproj's transform.
CentralMeridian == 30
FalseEasting == 5000000
LatDegree == 111320
LonDegree == 69000

Transform(p) ==
    <<CentralMeridian + ((p[1] - FalseEasting) \div LonDegree),
      p[2] \div LatDegree>>

\* GeoDataFrame.to_crs: every coordinate of every geometry is transformed
to_crs(T) ==
    [i \in DOMAIN T |->
        [T[i] EXCEPT !.geometry.coords =
            [k \in DOMAIN T[i].geometry.coords |->
                Transform(T[i].geometry.coords[k])]]]

\* lines 89-93
normalize_crs(T) == IF LooksGeographic(T) THEN T ELSE to_crs(T)

-----------------------------------------------------------------------------
(* Step 3: bounding box and KSI Count != 0, lines 98-103 *)

PointInBox(p) ==
    /\ bbox_west <= p[1] /\ p[1] <= bbox_east
    /\ bbox_south <= p[2] /\ p[2] <= bbox_north

Cross(a, b, c) == (b[1] - a[1]) * (c[2] - a[2]) - (b[2] - a[2]) * (c[1] - a[1])

Sign(n) == IF n > 0 THEN 1 ELSE IF n < 0 THEN -1 ELSE 0

Between(a, b, c) ==
    /\ Min2(a[1], b[1]) <= c[1] /\ c[1] <= Max2(a[1], b[1])
    /\ Min2(a[2], b[2]) <= c[2] /\ c[2] <= Max2(a[2], b[2])

\* the closed segments a-b and c-d share a point
SegmentsMeet(a, b, c, d) ==
    LET o1 == Sign(Cross(a, b, c))
        o2 == Sign(Cross(a, b, d))
        o3 == Sign(Cross(c, d, a))
        o4 == Sign(Cross(c, d, b))
    IN  \/ o1 # o2 /\ o3 # o4
        \/ o1 = 0 /\ Between(a, b, c)
        \/ o2 = 0 /\ Between(a, b, d)
        \/ o3 = 0 /\ Between(c, d, a)
        \/ o4 = 0 /\ Between(c, d, b)

SegmentMeetsBox(p, q) ==
    LET sw == <<bbox_west, bbox_south>>
        se == <<bbox_east, bbox_south>>
        ne == <<bbox_east, bbox_north>>
        nw == <<bbox_west, bbox_north>>
    IN  \/ PointInBox(p)
        \/ PointInBox(q)
        \/ SegmentsMeet(p, q, sw, se)
        \/ SegmentsMeet(p, q, se, ne)
        \/ SegmentsMeet(p, q, ne, nw)
        \/ SegmentsMeet(p, q, nw, sw)

\* geom.intersects(essex_bbox) for a LineString; an empty one meets nothing
Intersects(geom) ==
    \E k \in 1..(Len(geom.coords) - 1) :
        SegmentMeetsBox(geom.coords[k], geom.coords[k + 1])

\* mutant of RegionFilter: line 103 left out
RegionFilterKeepsZero(T) == SelectSeq(T, LAMBDA r : Intersects(r.geometry))

\* mutant of RegionFilter: the mask reduced with .any(), so that one row in
\* the box keeps the whole frame
RegionFilterAny(T) ==
    SelectSeq(SelectSeq(T, LAMBDA r : \E i \in DOMAIN T : Intersects(T[i].geometry)),
              LAMBDA r : r.ksi # 0)

\* lines 102-103
RegionFilter(T) ==
    SelectSeq(SelectSeq(T, LAMBDA r : Intersects(r.geometry)),
              LAMBDA r : r.ksi # 0)

-----------------------------------------------------------------------------
(* Steps 4 and 5: sidebar filters, lines 109-154 *)

\* lines 109, 116: the values offered by the two multiselects
all_road_numbers(T) == {T[i].road : i \in DOMAIN T}
speed_limits(T) == {T[i].speed : i \in DOMAIN T}

\* line 122
AttributeFilter(T, roads, speeds) ==
    SelectSeq(T, LAMBDA r : r.road \in roads /\ r.speed \in speeds)

\* lines 143-153: the OR of the conditions of the ticked checkboxes
combined_ksi(ksi, f14, f57, f8) ==
    \/ f14 /\ ksi >= 1 /\ ksi <= 4
    \/ f57 /\ ksi >= 5 /\ ksi <= 7
    \/ f8 /\ ksi >= 8

\* lines 141-154: with an empty frame, or with no checkbox ticked (the
\* list ksi_conditions is empty), the frame is left as it is
BucketFilter(T, f14, f57, f8) ==
    IF T # <<>> /\ (f14 \/ f57 \/ f8)
    THEN SelectSeq(T, LAMBDA r : combined_ksi(r.ksi, f14, f57, f8))
    ELSE T

-----------------------------------------------------------------------------
(* Step 6: smooth_geometry, lines 157-180 *)

\* splprep([x, y], s=0) raises unless there are more points than the spline
\* degree (m > k) and the chord-length parameter strictly increases, that
\* is, no two consecutive points coincide
SplprepOK(coords) ==
    /\ Len(coords) > SplineDegree
    /\ \A k \in 1..(Len(coords) - 1) : coords[k] # coords[k + 1]

\* splev at linspace(0, 1, n)[i]: the curve passes through the input points
\* (s=0); between them this model samples the chord, in integers
Sample(coords, i, n) ==
    LET m == Len(coords)
    IN  IF n = 1 THEN coords[1]
        ELSE LET pos == (i - 1) * (m - 1)
                 seg == pos \div (n - 1)
                 frac == pos % (n - 1)
             IN  IF seg >= m - 1 THEN coords[m]
                 ELSE <<coords[seg + 1][1]
                          + ((coords[seg + 2][1] - coords[seg + 1][1]) * frac)
                              \div (n - 1),
                        coords[seg + 1][2]
                          + ((coords[seg + 2][2] - coords[seg + 1][2]) * frac)
                              \div (n - 1)>>

\* mutant of smooth_geometry: the except branch returns an empty LineString
smooth_geometry_empty_on_error(geom, n) ==
    IF geom.geom_type = "LineString" /\ Len(geom.coords) > 2
    THEN IF ~SplprepOK(geom.coords) \/ n = 1
         THEN [geom_type |-> "LineString", coords |-> <<>>]
         ELSE [geom_type |-> "LineString",
               coords |-> [i \in 1..n |-> Sample(geom.coords, i, n)]]
    ELSE geom

\* smooth_geometry(geom, smoothing_factor=0, num_points=n), for n >= 1.
\* Whatever raises inside the try (splprep, or LineString on the single
\* coordinate that n = 1 gives) returns geom itself.
smooth_geometry(geom, n) ==
    IF geom.geom_type = "LineString" /\ Len(geom.coords) > 2
    THEN IF ~SplprepOK(geom.coords) \/ n = 1
         THEN geom
         ELSE [geom_type |-> "LineString",
               coords |-> [i \in 1..n |-> Sample(geom.coords, i, n)]]
    ELSE geom

\* mutant of SmoothAll: rows whose geometry came back unsmoothed are dropped
SmoothAllDropUnsmoothed(T) ==
    SelectSeq([i \in DOMAIN T |->
                 [T[i] EXCEPT !.geometry = smooth_geometry(T[i].geometry, num_points)]],
              LAMBDA r : Len(r.geometry.coords) = num_points)

\* lines 175-180
SmoothAll(T) ==
    IF T # <<>>
    THEN [i \in DOMAIN T |->
            [T[i] EXCEPT !.geometry = smooth_geometry(T[i].geometry, num_points)]]
    ELSE T

-----------------------------------------------------------------------------
(* Step 7: rendering, lines 183-212 *)

get_ksi_color(ksi) ==
    IF 1 <= ksi /\ ksi <= 4 THEN "yellow"
    ELSE IF 5 <= ksi /\ ksi <= 7 THEN "orange"
    ELSE "red"

\* lines 195-208: one drawn feature per row of gdf_filtered
Features(T) ==
    [i \in DOMAIN T |->
        [coords |-> T[i].geometry.coords,
         color |-> get_ksi_color(T[i].ksi),
         road |-> T[i].road, ksi |-> T[i].ksi, speed |-> T[i].speed]]

NoMap == [drawn |-> FALSE, features |-> <<>>]

-----------------------------------------------------------------------------
(* The uploads the model draws from *)

A12 == <<"A", "1", "2">>
B1 == <<"B", "1">>

LineFive == Wkt("LINESTRING", <<<<1, 513>>, <<3, 515>>, <<5, 514>>, <<7, 516>>, <<9, 515>>>>)
LineTwo == Wkt("LINESTRING", <<<<0, 515>>, <<5, 518>>>>)
LineThree == Wkt("LINESTRING", <<<<2, 520>>, <<4, 521>>, <<6, 520>>>>)
LineRepeat == Wkt("LINESTRING", <<<<1, 514>>, <<1, 514>>, <<3, 515>>, <<4, 516>>>>)
LineAcross == Wkt("LINESTRING", <<<<-10, 518>>, <<20, 518>>>>)
LineParis == Wkt("LINESTRING", <<<<23, 488>>, <<24, 489>>>>)
LineUtm == Wkt("LINESTRING", <<<<3275000, 57330000>>, <<3344000, 57441320>>>>)
LineDateline == Wkt("LINESTRING", <<<<1790, 516>>, <<1800, 515>>>>)
LineEmpty == Wkt("LINESTRING", <<>>)
Missing == Wkt("NaN", <<>>)
LineOne == Wkt("LINESTRING", <<<<4, 515>>>>)
PointWkt == Wkt("POINT", <<<<5, 515>>>>)
Garbage == Wkt("not wkt", <<>>)

Row(g, road, speed, ksi) ==
    [geometry |-> g, road |-> road, speed |-> speed, ksi |-> ksi]

SampleRows ==
    { Row(LineFive, Road(A12), IntCell(30), IntCell(3)),
      Row(LineTwo, Road(A12), IntCell(30), IntCell(0)),
      Row(PointWkt, Road(B1), IntCell(40), IntCell(10)),
      Row(LineAcross, Road(<<" ">> \o B1 \o <<" ">>), IntCell(40), IntCell(5)),
      Row(LineThree, NaNRoad, NaNCell, IntCell(8)),
      Row(LineRepeat, Road(A12), IntCell(40), IntCell(4)),
      Row(LineParis, Road(B1), IntCell(30), IntCell(7)),
      Row(LineUtm, Road(A12), IntCell(30), IntCell(1)),
      Row(LineEmpty, Road(B1), IntCell(30), NaNCell),
      Row(Garbage, Road(A12), IntCell(30), IntCell(3)),
      Row(LineTwo, Road(B1), IntCell(30), IntCell(-1)),
      Row(LineTwo, Road(A12), TextCell, IntCell(2)),
      Row(LineOne, Road(B1), IntCell(40), IntCell(6)),
      Row(LineDateline, Road(B1), IntCell(40), IntCell(2)),
      Row(Missing, Road(A12), IntCell(30), IntCell(1)) }

SeqsUpTo(S, n) == UNION {[1..k -> S] : k \in 0..n}

Files ==
    {[columns |-> AllColumns, rows |-> rs] : rs \in SeqsUpTo(SampleRows, MaxRows)}
    \cup {[columns |-> AllColumns \ {c}, rows |-> rs] :
            c \in {"geometry", "Road Number"},
            rs \in SeqsUpTo(SampleRows, Min2(MaxRows, 1))}
    \cup {[columns |-> {}, rows |-> <<>>]}

\* the geometries smooth_geometry is applied to on its own
SampleGeoms ==
    {Geom(wkt_loads(g)) :
        g \in {LineFive, LineTwo, LineThree, LineRepeat, LineAcross, LineParis,
               LineUtm, LineEmpty, PointWkt}}
    \cup {[geom_type |-> "LineString",
           coords |-> <<<<0, 0>>, <<1, 2>>, <<3, 3>>, <<4, 1>>>>]}

NoGeom == [geom_type |-> "", coords |-> <<>>]

-----------------------------------------------------------------------------
(* The script run *)

Reset ==
    /\ gdf' = <<>>
    /\ gdf_filtered' = <<>>
    /\ crs' = "none"
    /\ selected_roads' = {}
    /\ selected_speed' = {}
    /\ filter_1_4' = TRUE
    /\ filter_5_7' = TRUE
    /\ filter_8' = TRUE
    /\ messages' = <<>>
    /\ map' = NoMap
    /\ loaded' = <<>>
    /\ geo' = <<>>

Init ==
    /\ uploaded_file = NoFile
    /\ pc = "load"
    /\ gdf = <<>>
    /\ gdf_filtered = <<>>
    /\ crs = "none"
    /\ selected_roads = {}
    /\ selected_speed = {}
    /\ filter_1_4 = TRUE
    /\ filter_5_7 = TRUE
    /\ filter_8 = TRUE
    /\ messages = <<>>
    /\ map = NoMap
    /\ loaded = <<>>
    /\ geo = <<>>
    /\ sg_geom = NoGeom
    /\ sg_num_points = num_points
    /\ sg_result = NoGeom
    /\ sg_pc = "idle"

\* the user picks a file in the empty uploader: Streamlit runs the script
\* again from the top
Upload ==
    /\ pc = "stopped"
    /\ uploaded_file = NoFile
    /\ \E f \in Files : uploaded_file' = f
    /\ pc' = "load"
    /\ Reset
    /\ UNCHANGED sgVars

\* the user clears the uploader after a run: the script runs again with
\* uploaded_file None, and nothing of the previous run is kept
Remove ==
    /\ pc \in {"stopped", "done"}
    /\ uploaded_file # NoFile
    /\ uploaded_file' = NoFile
    /\ pc' = "load"
    /\ Reset
    /\ UNCHANGED sgVars

\* lines 80-82: nothing uploaded
NoUpload ==
    /\ pc = "load"
    /\ uploaded_file = NoFile
    /\ messages' = <<"Please upload a CSV file to proceed.">>
    /\ pc' = "stopped"
    /\ UNCHANGED <<uploaded_file, gdf, gdf_filtered, crs, selected_roads,
                   selected_speed, filter_1_4, filter_5_7, filter_8, map,
                   loaded, geo>>
    /\ UNCHANGED sgVars

\* lines 78-79
LoadStage ==
    /\ pc = "load"
    /\ uploaded_file # NoFile
    /\ LET r == load_data(uploaded_file)
       IN  /\ gdf' = r.gdf
           /\ loaded' = r.gdf
           /\ messages' = r.msgs
    /\ pc' = "crs"
    /\ UNCHANGED <<uploaded_file, gdf_filtered, crs, selected_roads,
                   selected_speed, filter_1_4, filter_5_7, filter_8, map, geo>>
    /\ UNCHANGED sgVars

\* mutant of CrsStage: the else branch (st.stop(), lines 94-95) left out
CrsStageNoStop ==
    /\ pc = "crs"
    /\ gdf' = normalize_crs(gdf)
    /\ geo' = normalize_crs(gdf)
    /\ crs' = "EPSG:4326"
    /\ pc' = "region"
    /\ UNCHANGED <<uploaded_file, gdf_filtered, selected_roads, selected_speed,
                   filter_1_4, filter_5_7, filter_8, messages, map, loaded>>
    /\ UNCHANGED sgVars

\* lines 85-95
CrsStage ==
    /\ pc = "crs"
    /\ IF gdf # <<>>
       THEN /\ gdf' = normalize_crs(gdf)
            /\ geo' = normalize_crs(gdf)
            /\ crs' = "EPSG:4326"
            /\ pc' = "region"
       ELSE /\ pc' = "stopped"
            /\ UNCHANGED <<gdf, geo, crs>>
    /\ UNCHANGED <<uploaded_file, gdf_filtered, selected_roads, selected_speed,
                   filter_1_4, filter_5_7, filter_8, messages, map, loaded>>
    /\ UNCHANGED sgVars

\* lines 98-103
RegionStage ==
    /\ pc = "region"
    /\ gdf' = RegionFilter(gdf)
    /\ pc' = "attr"
    /\ UNCHANGED <<uploaded_file, gdf_filtered, crs, selected_roads,
                   selected_speed, filter_1_4, filter_5_7, filter_8, messages,
                   map, loaded, geo>>
    /\ UNCHANGED sgVars

\* lines 109-122: each filter is "select all" or what the multiselect holds
AttributeStage ==
    /\ pc = "attr"
    /\ \E all_roads \in BOOLEAN, roads \in SUBSET all_road_numbers(gdf),
          all_speeds \in BOOLEAN, speeds \in SUBSET speed_limits(gdf) :
          /\ selected_roads' = IF all_roads THEN all_road_numbers(gdf) ELSE roads
          /\ selected_speed' = IF all_speeds THEN speed_limits(gdf) ELSE speeds
    /\ gdf_filtered' = AttributeFilter(gdf, selected_roads', selected_speed')
    /\ pc' = "bucket"
    /\ UNCHANGED <<uploaded_file, gdf, crs, filter_1_4, filter_5_7, filter_8,
                   messages, map, loaded, geo>>
    /\ UNCHANGED sgVars

\* lines 137-154
BucketStage ==
    /\ pc = "bucket"
    /\ filter_1_4' \in BOOLEAN
    /\ filter_5_7' \in BOOLEAN
    /\ filter_8' \in BOOLEAN
    /\ gdf_filtered' = BucketFilter(gdf_filtered, filter_1_4', filter_5_7', filter_8')
    /\ pc' = "smooth"
    /\ UNCHANGED <<uploaded_file, gdf, crs, selected_roads, selected_speed,
                   messages, map, loaded, geo>>
    /\ UNCHANGED sgVars

\* lines 175-180
SmoothStage ==
    /\ pc = "smooth"
    /\ gdf_filtered' = SmoothAll(gdf_filtered)
    /\ pc' = "render"
    /\ UNCHANGED <<uploaded_file, gdf, crs, selected_roads, selected_speed,
                   filter_1_4, filter_5_7, filter_8, messages, map, loaded, geo>>
    /\ UNCHANGED sgVars

\* lines 192-212
RenderStage ==
    /\ pc = "render"
    /\ IF gdf_filtered # <<>>
       THEN /\ map' = [drawn |-> TRUE, features |-> Features(gdf_filtered)]
            /\ UNCHANGED messages
       ELSE /\ messages' = Append(messages, "No data matches the selected filters or there is an issue rendering the map.")
            /\ UNCHANGED map
    /\ pc' = "done"
    /\ UNCHANGED <<uploaded_file, gdf, gdf_filtered, crs, selected_roads,
                   selected_speed, filter_1_4, filter_5_7, filter_8, loaded, geo>>
    /\ UNCHANGED sgVars

Next ==
    \/ Upload
    \/ Remove
    \/ NoUpload
    \/ LoadStage
    \/ CrsStage
    \/ RegionStage
    \/ AttributeStage
    \/ BucketStage
    \/ SmoothStage
    \/ RenderStage

Spec == Init /\ [][Next]_vars

-----------------------------------------------------------------------------
(* smooth_geometry on its own: every sample geometry, every num_points *)

InitSmooth ==
    /\ uploaded_file = NoFile
    /\ pc = "load"
    /\ gdf = <<>>
    /\ gdf_filtered = <<>>
    /\ crs = "none"
    /\ selected_roads = {}
    /\ selected_speed = {}
    /\ filter_1_4 = TRUE
    /\ filter_5_7 = TRUE
    /\ filter_8 = TRUE
    /\ messages = <<>>
    /\ map = NoMap
    /\ loaded = <<>>
    /\ geo = <<>>
    /\ sg_geom \in SampleGeoms
    /\ sg_num_points \in 1..MaxNumPoints \cup {num_points}
    /\ sg_result = NoGeom
    /\ sg_pc = "call"

CallSmooth ==
    /\ sg_pc = "call"
    /\ sg_result' = smooth_geometry(sg_geom, sg_num_points)
    /\ sg_pc' = "ret"
    /\ UNCHANGED <<sg_geom, sg_num_points>>
    /\ UNCHANGED pipeVars

NextSmooth == CallSmooth

SpecSmooth == InitSmooth /\ [][NextSmooth]_vars

-----------------------------------------------------------------------------
(* Properties *)

Rows == uploaded_file.rows

\* the stages that have run, read off the position of the script
LoadRan == uploaded_file # NoFile /\ pc # "load"
CrsRan == pc \in {"region", "attr", "bucket", "smooth", "render", "done"}
RegionRan == pc \in {"attr", "bucket", "smooth", "render", "done"}

\* the text of row i decodes to a LineString
DecodesToLineString(i) == wkt_loads(Rows[i].geometry).geom_type = "LineString"

\* the text of row i does not decode at all
Undecodable(i) == wkt_loads(Rows[i].geometry).raised

\* the frame without its geometry column
Attributes(T) ==
    [i \in DOMAIN T |-> [road |-> T[i].road, speed |-> T[i].speed, ksi |-> T[i].ksi]]

\* C1: in load_data, when the table has a geometry column (and nothing but
\* row geometries is wrong with it), a row whose geometry fails to parse is
\* dropped on its own: the loader returns every row whose geometry is a
\* LineString, in order, and so a non-empty frame when there is one.
C1_UnparsableRowDroppedAlone ==
    ( /\ LoadRan
      /\ AllColumns \subseteq uploaded_file.columns
      /\ \A i \in DOMAIN Rows :
            DecodesToLineString(i) =>
                ~CastRaises(Rows[i].speed) /\ ~CastRaises(Rows[i].ksi) )
    => LET keep == SelectSeq([i \in 1..Len(Rows) |-> i], DecodesToLineString)
       IN  /\ Len(loaded) = Len(keep)
           /\ \A j \in DOMAIN keep :
                 loaded[j].geometry.coords = Rows[keep[j]].geometry.pts

\* a record's KSI Count lies in a bucket whose checkbox is ticked
C2_InEnabledBucket(r) ==
    \/ filter_1_4 /\ r.ksi \in 1..4
    \/ filter_5_7 /\ r.ksi \in 5..7
    \/ filter_8 /\ r.ksi >= 8

\* C2: right after the severity-bucket filter, the records left are exactly
\* those of the attribute-filtered set whose KSI Count falls in at least one
\* enabled bucket; with all three buckets disabled none is left.
C2_PassesIffInEnabledBucket ==
    pc = "smooth" =>
        /\ gdf_filtered =
              SelectSeq(AttributeFilter(gdf, selected_roads, selected_speed),
                        C2_InEnabledBucket)
        /\ (~filter_1_4 /\ ~filter_5_7 /\ ~filter_8) => gdf_filtered = <<>>

\* C3 (as amended): after the region and zero-severity stage every remaining
\* record intersects the bounding box and has KSI Count # 0, and the records
\* left are exactly those of the CRS-normalized frame with both properties,
\* whatever the sidebar holds.
C3_RegionAndNonZero ==
    RegionRan =>
        /\ \A i \in DOMAIN gdf : Intersects(gdf[i].geometry) /\ gdf[i].ksi # 0
        /\ gdf = SelectSeq(geo, LAMBDA r : Intersects(r.geometry) /\ r.ksi # 0)

\* C3 witness: the stage has dropped an in-box record of KSI Count 0 and
\* kept another one
C3_Witness ==
    /\ pc = "attr"
    /\ gdf # <<>>
    /\ \E i \in DOMAIN geo : geo[i].ksi = 0 /\ Intersects(geo[i].geometry)

\* C3 as stated: every remaining record has ksi_count >= 1
C3_RegionAndPositive ==
    RegionRan =>
        \A i \in DOMAIN gdf : Intersects(gdf[i].geometry) /\ gdf[i].ksi >= 1

\* C4 (as amended): every record load_data returns has a LineString geometry,
\* which has no vertex at all (LINESTRING EMPTY) or at least 2; when the load
\* succeeds the rows of any other geometry type have been dropped.
C4_LoadedAreLineStrings ==
    LoadRan =>
        /\ \A i \in DOMAIN loaded :
              /\ loaded[i].geometry.geom_type = "LineString"
              /\ Len(loaded[i].geometry.coords) # 1
        /\ loaded # <<>> =>
              Len(loaded) = Cardinality({i \in DOMAIN Rows : Rows[i].geometry.tag = "LINESTRING"})

\* C4 witness: a load that dropped a row and returned an empty LineString
C4_Witness ==
    /\ LoadRan
    /\ loaded # <<>>
    /\ Len(loaded) < Len(Rows)
    /\ \E i \in DOMAIN loaded : loaded[i].geometry.coords = <<>>

\* C4 as stated: every loaded geometry has at least 2 vertices
C4_LoadedHaveTwoVertices ==
    LoadRan =>
        \A i \in DOMAIN loaded :
            /\ loaded[i].geometry.geom_type = "LineString"
            /\ Len(loaded[i].geometry.coords) >= 2

ErrorTexts ==
    { "Error: The uploaded file must contain a 'geometry' column.",
      "No valid LineString geometries found in the dataset.",
      "Error loading data" }

\* the load ends in a dataset-level error: no geometry column, no row left by
\* the LineString filter, or an exception (unreadable CSV, undecodable
\* geometry text, a missing column, a cell that is no integer)
C5_DatasetError ==
    \/ "geometry" \notin uploaded_file.columns
    \/ \A i \in DOMAIN Rows : ~DecodesToLineString(i)
    \/ \E i \in DOMAIN Rows : Undecodable(i)
    \/ ~(AllColumns \subseteq uploaded_file.columns)
    \/ \E i \in DOMAIN Rows :
          DecodesToLineString(i) /\ (CastRaises(Rows[i].speed) \/ CastRaises(Rows[i].ksi))

\* C5: whenever the load ends in a dataset-level error the user gets an error
\* message, the record set is empty and the run halts: the CRS stage, the
\* filters, the smoothing and the rendering leave no trace in that run.
C5_LoadErrorHalts ==
    (LoadRan /\ C5_DatasetError) =>
        /\ Len(messages) = 1 /\ messages[1] \in ErrorTexts
        /\ loaded = <<>> /\ gdf = <<>>
        /\ pc \in {"crs", "stopped"}
        /\ crs = "none" /\ geo = <<>>
        /\ gdf_filtered = <<>> /\ selected_roads = {} /\ selected_speed = {}
        /\ map = NoMap

\* C5 witness: a run halted after a load that raised on a two-row file
C5_Witness ==
    /\ pc = "stopped"
    /\ uploaded_file # NoFile
    /\ Len(Rows) = 2
    /\ \E i \in DOMAIN Rows : Undecodable(i)
    /\ messages = <<"Error loading data">>

\* the colour of the bucket a KSI Count falls in
C6_BucketColour(ksi, colour) ==
    \/ ksi \in 1..4 /\ colour = "yellow"
    \/ ksi \in 5..7 /\ colour = "orange"
    \/ ksi >= 8 /\ colour = "red"

\* C6: every record drawn on the map has KSI Count # 0 and the colour of the
\* bucket its KSI Count falls in ([1,4] yellow, [5,7] orange, [8,inf) red).
C6_DrawnInBucketColour ==
    map.drawn =>
        \A i \in DOMAIN map.features :
            /\ map.features[i].ksi # 0
            /\ C6_BucketColour(map.features[i].ksi, map.features[i].color)

\* C7: the records left after the severity-bucket stage (region filter first,
\* attribute and bucket filters afterwards) are those the reverse order
\* gives: attribute and bucket filters on the CRS-normalized frame first, the
\* region and zero-severity filter afterwards.
C7_FiltersCommute ==
    pc = "smooth" =>
        gdf_filtered =
            RegionFilter(BucketFilter(AttributeFilter(geo, selected_roads, selected_speed),
                                      filter_1_4, filter_5_7, filter_8))

\* C7 witness: the region filter and the sidebar filters each dropped a row
C7_Witness ==
    /\ pc = "smooth"
    /\ Len(gdf) < Len(geo)
    /\ Len(gdf_filtered) < Len(gdf)
    /\ Len(AttributeFilter(geo, selected_roads, selected_speed)) < Len(geo)

\* smooth_geometry's own guard and spline fit
C8_Smoothable(geom) == geom.geom_type = "LineString" /\ Len(geom.coords) > 2

C9_WithinGeographicRange(T) ==
    /\ \E i \in DOMAIN T : T[i].geometry.coords # <<>>
    /\ \A i \in DOMAIN T : \A k \in DOMAIN T[i].geometry.coords :
          /\ -LonLimit < T[i].geometry.coords[k][1]
          /\ T[i].geometry.coords[k][1] < LonLimit
          /\ -LatLimit < T[i].geometry.coords[k][2]
          /\ T[i].geometry.coords[k][2] < LatLimit

\* C9: for a non-empty loaded frame, if all coordinates lie strictly within
\* longitude (-180,180) and latitude (-90,90) the CRS stage passes every
\* coordinate through unchanged (and a second pass changes nothing either);
\* otherwise, and only otherwise, every coordinate is reprojected from the
\* projected CRS.
C9_CrsNormalization ==
    CrsRan =>
        /\ crs = "EPSG:4326"
        /\ Attributes(geo) = Attributes(loaded)
        /\ IF C9_WithinGeographicRange(loaded)
           THEN geo = loaded /\ normalize_crs(geo) = geo
           ELSE \A i \in DOMAIN loaded : \A k \in DOMAIN loaded[i].geometry.coords :
                   /\ geo[i].geometry.coords[k] = Transform(loaded[i].geometry.coords[k])
                   /\ geo[i].geometry.coords[k] # loaded[i].geometry.coords[k]

\* C9 witness: two geographic rows passed through the stage
C9_Witness ==
    /\ pc = "region"
    /\ Len(loaded) = 2
    /\ C9_WithinGeographicRange(loaded)
    /\ geo = loaded

\* one step of the script: the next stage, and no more records than before
C10_Step ==
    /\ (pc = "load" /\ uploaded_file # NoFile) =>
          pc' = "crs" /\ Len(gdf') <= Len(Rows)
    /\ pc = "crs" =>
          pc' \in {"region", "stopped"} /\ Len(gdf') <= Len(gdf)
    /\ pc = "region" => pc' = "attr" /\ Len(gdf') <= Len(gdf)
    /\ pc = "attr" => pc' = "bucket" /\ Len(gdf_filtered') <= Len(gdf)
    /\ pc = "bucket" => pc' = "smooth" /\ Len(gdf_filtered') <= Len(gdf_filtered)
    /\ pc = "smooth" => pc' = "render" /\ Len(gdf_filtered') = Len(gdf_filtered)
    /\ pc = "render" =>
          pc' = "done" /\ Len(map'.features) <= Len(gdf_filtered)

\* C10: in one run the stages execute in the order load, CRS normalization,
\* region/zero-severity filter, attribute filter, severity-bucket filter,
\* smoothing, rendering; no stage hands on more records than it received,
\* and smoothing hands on exactly as many.
C10_StagesInOrder == [][C10_Step]_vars

\* C10 witness: a finished run that lost a row on the way, smoothed one of
\* the rows it drew and left another as it was
C10_Witness ==
    /\ pc = "done"
    /\ map.drawn
    /\ Len(geo) = 2
    /\ Len(map.features) = 2
    /\ Len(map.features[1].coords) = num_points
    /\ Len(map.features[2].coords) # num_points

====
